---- MODULE Spec2Model ----
(***************************************************************************)
(* Model of the sandbox orchestration core of 000alen/compute: the Run     *)
(* object (packages/compute/src/runs.server.ts), the tRPC router with its  *)
(* process-wide registries `runs` and `execs` (trpc server) and the        *)
(* Docker adapter's createRun flow (packages/docker/src/index.ts).         *)
(*                                                                         *)
(* Every request handler is an async function.  A handler slot records the *)
(* await it is suspended at (pc); one action is the completion of that     *)
(* await together with all synchronous code up to the next await.          *)
(*                                                                         *)
(* Two specifications share the actions: Spec is the tRPC server, where    *)
(* Run objects are reached through the registry only; SpecLocal is a       *)
(* caller of the local createRun factory, holding Run objects directly.    *)
(***************************************************************************)
EXTENDS Integers, Sequences, FiniteSets, TLC

\* ---------------------------------------------------------------- bounds
MaxRuns      == 1  \* Run objects constructed
MaxExecs     == 1  \* exec instances the engine creates
MaxHandlers  == 2  \* request handlers in flight at the same time
MaxDisposals == 1  \* dispose calls that reach container.stop, per Run object
MaxRunDisposals == 2  \* the same, for a Run object the caller holds
MaxChunks    == 2  \* output chunks one exec writes

Handlers == 1..MaxHandlers
Objs     == 1..MaxRuns
ExecObjs == 1..MaxExecs

\* ------------------------------------------------------- request inputs
BogusId     == 0                      \* an id no uuidv4() call ever returned
Ports       == {3000, 8080}           \* ports a client may ask about
PortSets    == {{3000}}               \* CreateRunOptions.ports
HostPorts   == {32768}                \* host port the engine binds for HostPort "0"
Runtimes    == {"node22", "python312"}
SourceTypes == {"git", "tar"}
Cmds        == {"", "npm"}            \* ExecOptions.cmd
ExitCodes   == {0, 1}                 \* exit status of a process
Null        == -2                     \* ExitCode: null

VARIABLES
  runs,        \* registry: sandbox id -> Run object
  execs,       \* registry: exec id -> ExecInstance
  nObjs,       \* Run objects constructed so far
  nExecs,      \* exec instances created by the engine so far
  tmpDir,      \* Run.tmpDir on disk: "none" | "present" | "removed"
  container,   \* Run.container: "none" | "running" | "stopped" | "removed"
  runObj,      \* "none" | "router" | "local": who holds the Run object
  cleaned,     \* Run.cleaned
  portMap,     \* Run.portMap: container port -> host port
  published,   \* CreateRunOptions.ports the Run was created with
  provisioned, \* creation steps that had succeeded when new Run(...) ran
  stopCalls, removeCalls, rmCalls,  \* teardown calls issued per Run object
  imagePresent,\* the runtime image is in the engine's local store
  ex,          \* exec instances of the engine
  hs,          \* request handlers in flight
  last,        \* the response the latest step delivered (Idle: none)
  disposedOk,  \* sandbox ids for which a dispose request returned success
  taskTable,   \* DynamoDB table TaskResults: task id -> item
  computeQueue,         \* SQS queue ComputeQueue (the standard queue)
  computePriorityQueue, \* SQS queue ComputePriorityQueue
  starter,     \* the invocation of the task starter lambda in flight
  scheduler,   \* the invocation of the scheduler lambda in flight
  processor,   \* the invocation of the starter lambda on a queue message
  nReceived,   \* queue messages handed to the starter lambda so far
  ecsTasks,    \* the Fargate tasks task.run has launched
  poller,      \* the invocation of the status lambda in flight
  io,          \* what exec.start() of a containerd exec returned: its streams
  duplex       \* the Duplex ContainerdExecInstance.start hands back

vars == <<runs, execs, nObjs, nExecs, tmpDir, container, runObj,
          cleaned, portMap, published, provisioned, stopCalls, removeCalls, rmCalls,
          imagePresent, ex, hs, last, disposedOk,
          taskTable, computeQueue, computePriorityQueue, starter, scheduler,
          processor, nReceived, ecsTasks, poller,
          io, duplex>>

regVars  == <<runs, execs, disposedOk>>
objVars  == <<nObjs, tmpDir, container, runObj, cleaned, portMap, published, provisioned>>
callVars == <<stopCalls, removeCalls, rmCalls>>
execVars == <<nExecs, ex>>
runVars   == <<processor, nReceived, ecsTasks, poller>>
cloudVars == <<taskTable, computeQueue, computePriorityQueue, starter, scheduler, runVars>>
ioVars    == <<io, duplex>>
\* the sandbox server:
sandboxVars == <<regVars, objVars, callVars, execVars, imagePresent, hs, last>>
\* the cloud task pipeline and the streams of a containerd exec: no step of
\* the sandbox server reads or writes them
otherVars == <<cloudVars, ioVars>>

\* ClientRun.exec: the promise it returns and the ReadableStream it builds
NoClient         == [promise |-> "-", stream |-> "-"]
ClientSubscribed == [promise |-> "pending", stream |-> "open"]
NoArg  == [src |-> "-", runtime |-> "-", ports |-> {}]
NoExec == [state |-> "none", owner |-> 0, stream |-> "none", buf |-> <<>>,
           exitCode |-> Null]
Idle   == [op |-> "idle", pc |-> "-", id |-> BogusId, c |-> 0, res |-> "-", val |-> 0,
           port |-> 0, cmd |-> "-", cl |-> NoClient,
           entity |-> "-",
           log |-> <<>>, pre |-> FALSE, after |-> FALSE, e |-> 0, sent |-> <<>>,
           started |-> FALSE, arg |-> NoArg, tmp |-> "none", ctr |-> "none"]

SandboxInit(image) ==
  /\ runs = <<>>
  /\ execs = <<>>
  /\ nObjs = 0
  /\ nExecs = 0
  /\ tmpDir = [c \in Objs |-> "none"]
  /\ container = [c \in Objs |-> "none"]
  /\ runObj = [c \in Objs |-> "none"]
  /\ cleaned = [c \in Objs |-> FALSE]
  /\ portMap = [c \in Objs |-> <<>>]
  /\ published = [c \in Objs |-> {}]
  /\ provisioned = [c \in Objs |-> {}]
  /\ stopCalls = [c \in Objs |-> 0]
  /\ removeCalls = [c \in Objs |-> 0]
  /\ rmCalls = [c \in Objs |-> 0]
  /\ imagePresent = image
  /\ ex = [e \in ExecObjs |-> NoExec]
  /\ hs = [h \in Handlers |-> Idle]
  /\ last = Idle
  /\ disposedOk = {}

\* no task submitted, no lambda running; `backlog` messages of other
\* producers wait in the standard queue
NoLambda == [pc |-> "-", taskId |-> 0, priority |-> 0, threshold |-> 0,
             items |-> <<>>, mainDepth |-> 0, priorityDepth |-> 0]
\* no queue message being processed, no status request being served
NoProcessor == [pc |-> "-", taskId |-> 0, priority |-> 0, queue |-> "-", index |-> 0, arn |-> 0]
NoPoller    == [pc |-> "-", taskId |-> 0, status |-> "-", arn |-> 0, code |-> 0,
                isComplete |-> FALSE]
CloudInit(backlog) ==
  /\ taskTable = <<>>
  /\ computeQueue = [backlog |-> backlog, msgs |-> <<>>, deleted |-> {}]
  /\ computePriorityQueue = [backlog |-> 0, msgs |-> <<>>, deleted |-> {}]
  /\ starter = NoLambda
  /\ scheduler = NoLambda
  /\ processor = NoProcessor
  /\ nReceived = 0
  /\ ecsTasks = <<>>
  /\ poller = NoPoller

\* no containerd exec started
NoIo     == [stdout |-> "-", stderr |-> "-", endedProp |-> FALSE, container |-> "-"]
NoDuplex == [state |-> "-", data |-> <<>>, eofs |-> 0, read |-> 0]
IoInit ==
  /\ io = NoIo
  /\ duplex = NoDuplex

Init == SandboxInit(FALSE) /\ CloudInit(0) /\ IoInit

\* --------------------------------------------------------------- helpers
Finish(rec, r, v) == [rec EXCEPT !.pc = "done", !.res = r, !.val = v, !.e = 0]
Fail(rec, r)      == Finish(rec, r, 0)

\* (variant) an unknown id is answered with the INTERNAL_SERVER_ERROR code
NotFoundAsInternalError(rec, kind) == Fail(rec, "Error")
\* `throw new TRPCError({code: "NOT_FOUND", message: `Run ${id} not found`})`:
\* the response names the entity kind ("Run" or "Exec") and carries the id
NotFound(rec, kind) == [Fail(rec, "NotFound") EXCEPT !.entity = kind]

\* ClientRun.exec, onData of the start event: `resolve({id, exec, stream})`
ClientOnStart(cl) == [cl EXCEPT !.promise = "resolved"]
\* (variant) onError closes the stream and leaves the promise alone
ClientOnErrorCloseOnly(cl) == [cl EXCEPT !.stream = "closed"]
\* ClientRun.exec, onError: `controller.close(); reject(error)`; rejecting a
\* promise that is already resolved does nothing
ClientOnError(cl) ==
  [cl EXCEPT !.stream = "closed",
             !.promise = IF @ = "pending" THEN "rejected" ELSE @]
\* ClientRun.exec, onStopped: `controller.close(); if (!id) return reject(...)`
ClientOnStopped(cl) ==
  [cl EXCEPT !.stream = "closed",
             !.promise = IF @ = "pending" THEN "rejected" ELSE @]
\* the subscription of a streaming exec ends: the client is told how
ClientNotified(rec) ==
  IF rec.op # "exec" THEN rec
  ELSE [rec EXCEPT !.cl = IF rec.res = "ok" THEN ClientOnStopped(@) ELSE ClientOnError(@)]

\* no response is on its way to the client
Taken == last.op = "idle"

\* handler h continues as rec, or delivers rec as its response
Put(h, rec) ==
  /\ Taken
  /\ UNCHANGED otherVars
  /\ IF rec.pc = "done"
     THEN hs' = [hs EXCEPT ![h] = Idle] /\ last' = ClientNotified(rec)
     ELSE hs' = [hs EXCEPT ![h] = rec] /\ last' = Idle

\* the client's callback (the resolved or rejected promise of the call, the
\* subscription's onStopped or onError) has run with the response
ClientTakes ==
  /\ ~Taken
  /\ last' = Idle
  /\ UNCHANGED <<regVars, objVars, callVars, execVars, imagePresent, hs, otherVars>>

\* a new request takes the first free handler slot
Free(h)       == hs[h].op = "idle"
CanIssue(h)   == Taken /\ Free(h) /\ \A g \in Handlers : g < h => ~Free(g)

\* uuidv4(): a fresh id for every Run stored and for every exec stored; the
\* id of the c-th Run and of the e-th exec instance
RunId(c)   == c
\* (variant) exec ids drawn from the same sequence as the sandbox ids
ExecIdShared(e) == e
ExecId(e)  == MaxRuns + e
\* ids a client can name: the ones it was given, and one it was never given
RunIds     == {BogusId} \cup {RunId(c) : c \in {d \in Objs : runObj[d] = "router"}}
ExecIds    == {BogusId} \cup {ExecId(e) : e \in 1..nExecs}
InFlight(ops) == {h \in Handlers : hs[h].op \in ops}

\* Map.has / Map.set / Map.delete of the registries
Has(m, id)       == id \in DOMAIN m
MapSet(m, id, v) == [i \in (DOMAIN m) \cup {id} |-> IF i = id THEN v ELSE m[i]]
MapDelete(m, id) == [i \in (DOMAIN m) \ {id} |-> m[i]]

\* ============================================================ createRun
\* createComputeRouter.createRun -> DockerAdapter.createRun, and the local
\* createRun factory: the same sequence of awaited calls.
ProvisioningSteps == {"prepareWorkspace", "materializeSource", "image",
                      "createContainer", "start", "inspect"}

\* (variant) container.start() is not awaited: its failure goes unnoticed
CreateRunNextStartUnawaited(pc, ok) ==
  IF pc = "start" THEN "inspect"
  ELSE IF ~ok THEN (IF pc = "imageInspect" THEN "pullImage" ELSE "throw")
  ELSE CASE pc = "prepareWorkspace"  -> "materializeSource"
         [] pc = "materializeSource" -> "imageInspect"
         [] pc = "imageInspect"      -> "createContainer"
         [] pc = "pullImage"         -> "followProgress"
         [] pc = "followProgress"    -> "createContainer"
         [] pc = "createContainer"   -> "start"
         [] OTHER                    -> "return"

\* where the creation continues once the awaited call `pc` has settled
CreateRunNext(pc, ok) ==
  IF ~ok THEN (IF pc = "imageInspect" THEN "pullImage" ELSE "throw")
  ELSE CASE pc = "prepareWorkspace"  -> "materializeSource"
         [] pc = "materializeSource" -> "imageInspect"
         [] pc = "imageInspect"      -> "createContainer"
         [] pc = "pullImage"         -> "followProgress"
         [] pc = "followProgress"    -> "createContainer"
         [] pc = "createContainer"   -> "start"
         [] pc = "start"             -> "inspect"
         [] OTHER                    -> "return"

\* DockerAdapter.materializeSource: only git sources have a handler
SourceSupported(src) == src = "git"
\* (variant) every runtime tag is mapped to an image
RuntimeSupportedAny(rt) == TRUE
\* DockerAdapter.ensureImage: runtime.startsWith("node")
RuntimeSupported(rt) == rt \in {"node22", "node20"}

CreateOps   == {"createRun", "local.createRun"}
IsCreate(h) == hs[h].op \in CreateOps

\* (variant) a failed source materialization does not stop the creation
AdvanceDespiteSourceFailure(rec, ok, done) ==
  LET nxt == CreateRunNext(rec.pc, ok \/ rec.pc = "materializeSource") IN
  IF nxt = "throw" THEN Fail(rec, "Error")
  ELSE [rec EXCEPT !.pc = nxt, !.log = IF ok THEN Append(@, done) ELSE @]

\* advance a creation past the awaited call, recording the step `done`
Advance(rec, ok, done) ==
  LET nxt == CreateRunNext(rec.pc, ok) IN
  IF nxt = "throw" THEN Fail(rec, "Error")
  ELSE [rec EXCEPT !.pc = nxt, !.log = IF ok THEN Append(@, done) ELSE @]

CreateRunStart(h, viaRouter, src, rt, ports) ==
  /\ CanIssue(h)
  /\ nObjs + Cardinality(InFlight(CreateOps)) < MaxRuns
  /\ Put(h, [Idle EXCEPT
               !.op = IF viaRouter THEN "createRun" ELSE "local.createRun",
               !.pc = "prepareWorkspace", !.res = "pending",
               !.arg = [src |-> src, runtime |-> rt, ports |-> ports]])
  /\ UNCHANGED <<regVars, objVars, callVars, execVars, imagePresent>>

\* mkdtemp + mkdir settled; then materializeSource is entered
PrepareWorkspaceReturns(h, ok) ==
  /\ IsCreate(h) /\ hs[h].pc = "prepareWorkspace"
  /\ LET rec == [hs[h] EXCEPT !.tmp = IF ok THEN "present" ELSE @] IN
     Put(h, IF ok /\ ~SourceSupported(rec.arg.src)
            THEN Fail([rec EXCEPT !.log = Append(@, "prepareWorkspace")],
                      "UnsupportedSourceKind")
            ELSE Advance(rec, ok, "prepareWorkspace"))
  /\ UNCHANGED <<regVars, objVars, callVars, execVars, imagePresent>>

\* git clone / checkout settled; then ensureImage is entered
MaterializeSourceReturns(h, ok) ==
  /\ IsCreate(h) /\ hs[h].pc = "materializeSource"
  /\ Put(h, IF ok /\ ~RuntimeSupported(hs[h].arg.runtime)
            THEN Fail([hs[h] EXCEPT !.log = Append(@, "materializeSource")],
                      "UnsupportedRuntime")
            ELSE Advance(hs[h], ok, "materializeSource"))
  /\ UNCHANGED <<regVars, objVars, callVars, execVars, imagePresent>>

\* getImage(ref).inspect() settles: it succeeds iff the image is present
ImageInspectReturns(h) ==
  /\ IsCreate(h) /\ hs[h].pc = "imageInspect"
  /\ Put(h, Advance(hs[h], imagePresent, "image"))
  /\ UNCHANGED <<regVars, objVars, callVars, execVars, imagePresent>>

PullImageReturns(h, ok) ==
  /\ IsCreate(h) /\ hs[h].pc = "pullImage"
  /\ Put(h, Advance(hs[h], ok, "pullImage"))
  /\ UNCHANGED <<regVars, objVars, callVars, execVars, imagePresent>>

\* (variant) the progress callback resolves whatever error it is given
FollowProgressReturnsErrorDropped(h, ok) ==
  /\ IsCreate(h) /\ hs[h].pc = "followProgress"
  /\ Put(h, [hs[h] EXCEPT !.pc = "createContainer",
                           !.log = IF ok THEN Append(@, "image") ELSE @])
  /\ imagePresent' = (imagePresent \/ ok)
  /\ UNCHANGED <<regVars, objVars, callVars, execVars>>

\* modem.followProgress(stream, cb) called back: the pull ended, with or
\* without an error
FollowProgressReturns(h, ok) ==
  /\ IsCreate(h) /\ hs[h].pc = "followProgress"
  /\ Put(h, Advance(hs[h], ok, "image"))
  /\ imagePresent' = (imagePresent \/ ok)
  /\ UNCHANGED <<regVars, objVars, callVars, execVars>>

CreateContainerReturns(h, ok) ==
  /\ IsCreate(h) /\ hs[h].pc = "createContainer"
  /\ Put(h, Advance([hs[h] EXCEPT !.ctr = IF ok THEN "created" ELSE @], ok, "createContainer"))
  /\ UNCHANGED <<regVars, objVars, callVars, execVars, imagePresent>>

ContainerStartReturns(h, ok) ==
  /\ IsCreate(h) /\ hs[h].pc = "start"
  /\ Put(h, Advance([hs[h] EXCEPT !.ctr = IF ok THEN "running" ELSE @], ok, "start"))
  /\ UNCHANGED <<regVars, objVars, callVars, execVars, imagePresent>>

\* DockerAdapter.getPortMappings over NetworkSettings.Ports as
\* container.inspect() reports it (0: no host port bound for the key)
GetPortMappings(bindings) ==
  [p \in {q \in DOMAIN bindings : bindings[q] # 0} |-> bindings[p]]

\* ContainerdAdapter.getPortMappings: `const portMap = {}; ... return portMap`
ContainerdGetPortMappings == <<>>

\* what a correct engine reports for a container created with PortBindings
\* of `ports`: a host port for each of them, none for any other port
EngineBindings(ports) ==
  {b \in [Ports -> HostPorts \cup {0}] : \A q \in Ports : (b[q] # 0) <=> (q \in ports)}

\* container.inspect() settled and getPortMappings returned pm; on success
\* the Run is constructed and (router) stored under a fresh id
RunCreated(h, ok, pm) ==
  /\ IsCreate(h) /\ hs[h].pc = "inspect"
  /\ LET rec == hs[h]
         adv == Advance(rec, ok, "inspect")
         c   == nObjs + 1 IN
     IF adv.pc = "return"
     THEN /\ nObjs' = c
          /\ tmpDir' = [tmpDir EXCEPT ![c] = rec.tmp]
          /\ container' = [container EXCEPT ![c] = rec.ctr]
          /\ portMap' = [portMap EXCEPT ![c] = pm]
          /\ published' = [published EXCEPT ![c] = rec.arg.ports]
          /\ provisioned' = [provisioned EXCEPT ![c] = {adv.log[i] : i \in DOMAIN adv.log}]
          /\ IF rec.op = "createRun"
             THEN /\ runObj' = [runObj EXCEPT ![c] = "router"]
                  /\ runs' = MapSet(runs, RunId(c), c)
                  /\ Put(h, Finish([adv EXCEPT !.id = RunId(c), !.c = c], "ok", RunId(c)))
             ELSE /\ runObj' = [runObj EXCEPT ![c] = "local"]
                  /\ Put(h, Finish([adv EXCEPT !.c = c], "ok", 0))
                  /\ UNCHANGED runs
     ELSE /\ Put(h, adv)
          /\ UNCHANGED <<nObjs, tmpDir, container, portMap, published, provisioned, runObj, runs>>
  /\ UNCHANGED <<execs, disposedOk, cleaned, callVars, execVars, imagePresent>>

\* DockerAdapter.createRun, step 6
ContainerInspectReturns(h, ok, bindings) ==
  RunCreated(h, ok, GetPortMappings(bindings))

\* ContainerdAdapter.createRun, step 6
ContainerdInspectReturns(h, ok) ==
  RunCreated(h, ok, ContainerdGetPortMappings)

\* ContainerdAdapter.pullImage: `new stream.PassThrough()` then
\* `passThrough.end()`: a readable that has reached its end, is not flowing
\* and is read by nobody
PassThroughEnded == [ended |-> TRUE, flowing |-> FALSE, errored |-> FALSE]
\* a Node Readable emits 'end' only once its data is consumed, which takes
\* flowing mode or read() calls; 'error' only when it was destroyed with one
EmitsEnd(s)   == s.ended /\ s.flowing
EmitsError(s) == s.errored
\* ContainerdAdapter.modem.followProgress: `stream.on('end', ...)` and
\* `stream.on('error', ...)`; neither listener makes the stream flow
ContainerdFollowProgress(s) ==
  IF EmitsEnd(s) THEN "resolve" ELSE IF EmitsError(s) THEN "reject" ELSE "pending"

\* ContainerdAdapter.pullImage settled (images.create, then the ended
\* PassThrough is returned) and pullImageIfMissing has called followProgress
\* on it: the creation goes on when the callback is called
ContainerdPullImageReturns(h, ok) ==
  /\ IsCreate(h) /\ hs[h].pc = "pullImage"
  /\ LET r1  == Advance(hs[h], ok, "pullImage")
         out == ContainerdFollowProgress(PassThroughEnded) IN
     Put(h, IF ~ok \/ out = "pending" THEN r1 ELSE Advance(r1, out = "resolve", "image"))
  /\ imagePresent' = (imagePresent \/ ok)
  /\ UNCHANGED <<regVars, objVars, callVars, execVars>>

\* the awaited calls both adapters make in the same way
AdapterSteps(h) ==
  \/ \E ok \in BOOLEAN :
       \/ PrepareWorkspaceReturns(h, ok)
       \/ MaterializeSourceReturns(h, ok)
       \/ CreateContainerReturns(h, ok)
       \/ ContainerStartReturns(h, ok)
  \/ ImageInspectReturns(h)

CreateSteps(h) ==
  \/ AdapterSteps(h)
  \/ \E ok \in BOOLEAN :
       \/ PullImageReturns(h, ok)
       \/ FollowProgressReturns(h, ok)
  \/ \E ok \in BOOLEAN, b \in EngineBindings(hs[h].arg.ports) :
       ContainerInspectReturns(h, ok, b)

ContainerdCreateSteps(h) ==
  \/ AdapterSteps(h)
  \/ \E ok \in BOOLEAN : ContainerdPullImageReturns(h, ok)
  \/ \E ok \in BOOLEAN : ContainerdInspectReturns(h, ok)

\* ============================================================== dispose
\* (variant) the cleaned flag is not consulted
DisposeEntryIgnoringFlag(isCleaned) == "stop"
\* Run.dispose: `if (this.cleaned) return;`
DisposeEntry(isCleaned) == IF isCleaned THEN "return" ELSE "stop"
\* (variant) a failing stop is not caught
AfterStopUncaught(ok) == IF ok THEN "remove" ELSE "throw"
\* Run.dispose: `try { await this.container.stop({ t: 5 }) } catch { }`
AfterStop(ok) == "remove"
\* Run.dispose: `try { await this.container.remove({ force: true }) } catch { }`
AfterRemove(ok) == "rm"
\* Run.dispose: `await rm(...)` is not guarded; `this.cleaned = true` follows it
AfterRm(ok) == IF ok THEN "return" ELSE "throw"
\* (variant) the registry entry is kept
RunsAfterDisposeKeeping(m, id) == m
\* createRunRouter.dispose: `options.runs.delete(id)` after `await run.dispose()`
RunsAfterDispose(m, id) == MapDelete(m, id)

\* (variant) the entry is deleted before run.dispose() has returned
RunsOnDisposeDeletedFirst(m, id, returned) == MapDelete(m, id)
\* createRunRouter.dispose: the entry stays while `await run.dispose()` is
\* pending and is deleted once it has returned
RunsOnDispose(m, id, returned) == IF returned THEN RunsAfterDispose(m, id) ELSE m
\* (variant) the flag is set as soon as dispose is entered
CleanedOnEntrySet(flag) == TRUE
\* Run.dispose: `cleaned` is not written before the three steps were attempted
CleanedOnEntry(flag) == flag

\* (variant) teardown forgets the sandbox's port mappings
PortMapCleared(pm) == <<>>
\* Run: `private readonly portMap`, assigned in the constructor only
PortMapAfterTeardown(pm) == pm

\* the log of a dispose call: the steps it attempted, each failure marked
Mark(log, ok, step) == IF ok THEN log ELSE Append(log, step \o ".failed")
TeardownSteps == {"stop", "remove", "rm"}
Attempted(log) == SelectSeq(log, LAMBDA s : s \in TeardownSteps)

DisposeOps   == {"dispose", "Run.dispose"}
IsDispose(h) == hs[h].op \in DisposeOps

\* the synchronous head of Run.dispose on Run object c, entered by record rec
EnterDispose(rec, c) ==
  LET r0 == [rec EXCEPT !.c = c, !.res = "pending", !.pre = cleaned[c]] IN
  IF DisposeEntry(cleaned[c]) = "return"
  THEN Finish(r0, "ok", 0)
  ELSE [r0 EXCEPT !.pc = "stop", !.log = <<"stop">>]

\* createRunRouter.dispose
DisposeStart(h, id) ==
  /\ CanIssue(h)
  /\ id \in RunIds
  /\ (Has(runs, id) /\ ~cleaned[runs[id]]) => stopCalls[runs[id]] < MaxDisposals
  /\ LET r0 == [Idle EXCEPT !.op = "dispose", !.id = id, !.after = id \in disposedOk] IN
     IF ~Has(runs, id)
     THEN /\ Put(h, NotFound(r0, "Run"))
          /\ UNCHANGED <<stopCalls, runs, disposedOk, cleaned>>
     ELSE LET c  == runs[id]
              r1 == EnterDispose(r0, c) IN
          /\ Put(h, r1)
          /\ stopCalls' = IF r1.pc = "stop" THEN [stopCalls EXCEPT ![c] = @ + 1] ELSE stopCalls
          /\ cleaned' = [cleaned EXCEPT ![c] = CleanedOnEntry(@)]
          /\ runs' = RunsOnDispose(runs, id, r1.pc = "done")
          /\ disposedOk' = IF r1.pc = "done" THEN disposedOk \cup {id} ELSE disposedOk
  /\ UNCHANGED <<execs, nObjs, tmpDir, container, runObj, portMap, published, provisioned,
                 removeCalls, rmCalls, execVars, imagePresent>>

\* run.dispose() called on a Run the caller holds (local createRun)
RunDisposeStart(h, c) ==
  /\ CanIssue(h)
  /\ runObj[c] = "local"
  /\ ~cleaned[c] => stopCalls[c] < MaxRunDisposals
  /\ LET r1 == EnterDispose([Idle EXCEPT !.op = "Run.dispose"], c) IN
     /\ Put(h, r1)
     /\ stopCalls' = IF r1.pc = "stop" THEN [stopCalls EXCEPT ![c] = @ + 1] ELSE stopCalls
     /\ cleaned' = [cleaned EXCEPT ![c] = CleanedOnEntry(@)]
  /\ UNCHANGED <<regVars, nObjs, tmpDir, container, runObj, portMap, published, provisioned,
                 removeCalls, rmCalls, execVars, imagePresent>>

\* container.stop({t: 5}) settled
StopReturns(h, ok) ==
  /\ IsDispose(h) /\ hs[h].pc = "stop"
  /\ ok => container[hs[h].c] = "running"
  /\ LET c == hs[h].c IN
     /\ container' = IF ok THEN [container EXCEPT ![c] = "stopped"] ELSE container
     /\ IF AfterStop(ok) = "remove"
        THEN /\ removeCalls' = [removeCalls EXCEPT ![c] = @ + 1]
             /\ Put(h, [hs[h] EXCEPT !.pc = "remove",
                                      !.log = Append(Mark(@, ok, "stop"), "remove")])
        ELSE /\ Put(h, Fail([hs[h] EXCEPT !.log = Mark(@, ok, "stop")], "Error"))
             /\ UNCHANGED removeCalls
  /\ UNCHANGED <<regVars, nObjs, tmpDir, runObj, cleaned, portMap, published, provisioned,
                 stopCalls, rmCalls, execVars, imagePresent>>

\* container.remove({force: true}) settled
RemoveReturns(h, ok) ==
  /\ IsDispose(h) /\ hs[h].pc = "remove"
  /\ ok => container[hs[h].c] \in {"running", "stopped"}
  /\ LET c == hs[h].c IN
     /\ container' = IF ok THEN [container EXCEPT ![c] = "removed"] ELSE container
     /\ IF AfterRemove(ok) = "rm"
        THEN /\ rmCalls' = [rmCalls EXCEPT ![c] = @ + 1]
             /\ Put(h, [hs[h] EXCEPT !.pc = "rm",
                                      !.log = Append(Mark(@, ok, "remove"), "rm")])
        ELSE /\ Put(h, Fail([hs[h] EXCEPT !.log = Mark(@, ok, "remove")], "Error"))
             /\ UNCHANGED rmCalls
  /\ UNCHANGED <<regVars, nObjs, tmpDir, runObj, cleaned, portMap, published, provisioned,
                 stopCalls, removeCalls, execVars, imagePresent>>

\* rm(tmpDir, {recursive, force}) settled; on success cleaned is set and the
\* router's continuation deletes the registry entry
RmReturns(h, ok) ==
  /\ IsDispose(h) /\ hs[h].pc = "rm"
  /\ LET rec == [hs[h] EXCEPT !.log = Mark(@, ok, "rm")]
         c   == rec.c IN
     IF AfterRm(ok) = "return"
     THEN /\ tmpDir' = [tmpDir EXCEPT ![c] = IF ok THEN "removed" ELSE @]
          /\ cleaned' = [cleaned EXCEPT ![c] = TRUE]
          /\ Put(h, Finish(rec, "ok", 0))
          /\ runs' = IF rec.op = "dispose" THEN RunsAfterDispose(runs, rec.id) ELSE runs
          /\ disposedOk' = IF rec.op = "dispose" THEN disposedOk \cup {rec.id} ELSE disposedOk
          /\ portMap' = [portMap EXCEPT ![c] = PortMapAfterTeardown(@)]
     ELSE /\ Put(h, Fail(rec, "Error"))
          /\ portMap' = [portMap EXCEPT ![hs[h].c] = PortMapAfterTeardown(@)]
          /\ UNCHANGED <<tmpDir, cleaned, runs, disposedOk>>
  /\ UNCHANGED <<execs, nObjs, container, runObj, published, provisioned,
                 callVars, execVars, imagePresent>>

DisposeSteps(h) ==
  \E ok \in BOOLEAN : StopReturns(h, ok) \/ RemoveReturns(h, ok) \/ RmReturns(h, ok)

\* ============================================================ publicUrl
\* (variant) a port without a mapping is answered with the port itself
PublicUrlFabricated(c, port) ==
  [res |-> "ok", val |-> IF port \in DOMAIN portMap[c] THEN portMap[c][port] ELSE port]

\* Run.publicUrl: the answer is the host port the URL names
PublicUrl(c, port) ==
  LET hostPort == IF port \in DOMAIN portMap[c] THEN portMap[c][port] ELSE 0 IN
  IF hostPort = 0 THEN [res |-> "PortNotPublished", val |-> 0]
  ELSE [res |-> "ok", val |-> hostPort]

\* createRunRouter.publicUrl
PublicUrlStart(h, id, port) ==
  /\ CanIssue(h)
  /\ id \in RunIds
  /\ LET r0 == [Idle EXCEPT !.op = "publicUrl", !.id = id, !.port = port,
                            !.after = id \in disposedOk] IN
     Put(h, IF ~Has(runs, id) THEN NotFound(r0, "Run")
            ELSE LET a == PublicUrl(runs[id], port) IN
                 Finish([r0 EXCEPT !.c = runs[id], !.pre = cleaned[runs[id]]], a.res, a.val))
  /\ UNCHANGED <<regVars, objVars, callVars, execVars, imagePresent>>

\* run.publicUrl(port) on a Run the caller holds
RunPublicUrl(h, c, port) ==
  /\ CanIssue(h)
  /\ runObj[c] = "local"
  /\ LET a == PublicUrl(c, port) IN
     Put(h, Finish([Idle EXCEPT !.op = "Run.publicUrl", !.c = c, !.port = port,
                                !.pre = cleaned[c]],
                   a.res, a.val))
  /\ UNCHANGED <<regVars, objVars, callVars, execVars, imagePresent>>

\* ================================================================= exec
\* (variant) the command is passed to the engine unchecked
CreateExecEntryUnchecked(cmd) == "container.exec"
\* Run.createExec: `if (!cmd) throw new Error("ExecOptions.cmd is required")`
CreateExecEntry(cmd) == IF cmd = "" THEN "throw" ELSE "container.exec"
\* Run.execWait: `return ExitCode ?? -1`
ExitCodeOrDefault(code) == IF code = Null THEN -1 ELSE code

ExecOps == {"exec", "execWait", "Run.exec", "Run.execWait"}

\* the synchronous head of Run.exec / Run.execWait on Run object c
EnterExec(rec, c, cmd) ==
  LET r0 == [rec EXCEPT !.c = c, !.cmd = cmd, !.res = "pending", !.pre = cleaned[c]] IN
  IF CreateExecEntry(cmd) = "throw"
  THEN Fail(r0, "MissingCommand")
  ELSE [r0 EXCEPT !.pc = "container.exec"]

\* exec instances that exist or are being created
ExecsClaimed == nExecs + Cardinality({h \in InFlight(ExecOps) : hs[h].e = 0})

\* createRunRouter.exec (streaming) and createRunRouter.execWait
RouterExecStart(h, op, id, cmd) ==
  /\ CanIssue(h)
  /\ id \in RunIds
  /\ ExecsClaimed < MaxExecs
  /\ LET r0 == [Idle EXCEPT !.op = op, !.id = id, !.after = id \in disposedOk,
                            !.cl = IF op = "exec" THEN ClientSubscribed ELSE @] IN
     Put(h, IF ~Has(runs, id) THEN NotFound(r0, "Run")
            ELSE EnterExec(r0, runs[id], cmd))
  /\ UNCHANGED <<regVars, objVars, callVars, execVars, imagePresent>>

\* run.exec(opts) / run.execWait(opts) on a Run the caller holds
RunExecStart(h, op, c, cmd) ==
  /\ CanIssue(h)
  /\ runObj[c] = "local"
  /\ ExecsClaimed < MaxExecs
  /\ Put(h, EnterExec([Idle EXCEPT !.op = op], c, cmd))
  /\ UNCHANGED <<regVars, objVars, callVars, execVars, imagePresent>>

\* (variant) the start event is yielded before run.exec is awaited
ExecFailedAfterStart(rec) == Fail([rec EXCEPT !.started = TRUE], "Error")
\* `await run.exec(opts)` / `await this.createExec(opts)` rejected: the
\* handler throws at that await, before anything that follows it
ExecFailed(rec) == Fail(rec, "Error")

\* container.exec(config) settled: the engine creates an exec instance in a
\* running container
ContainerExecReturns(h, ok) ==
  /\ hs[h].op \in ExecOps /\ hs[h].pc = "container.exec"
  /\ ok => container[hs[h].c] = "running"
  /\ LET rec == hs[h]
         e   == nExecs + 1 IN
     IF ok
     THEN /\ nExecs' = e
          /\ ex' = [ex EXCEPT ![e] = [NoExec EXCEPT !.state = "created", !.owner = rec.c]]
          /\ Put(h, [rec EXCEPT !.pc = "exec.start", !.e = e])
     ELSE /\ Put(h, ExecFailed(rec))
          /\ UNCHANGED execVars
  /\ UNCHANGED <<regVars, objVars, callVars, imagePresent>>

\* (variant) the start event is yielded without the exec being stored
ExecsOnStartUnstored(m, id, e) == m
\* createRunRouter.exec: `execs.set(execId, exec)` precedes the yield of the
\* start event, with no await between the two
ExecsOnStart(m, id, e) == MapSet(m, id, e)

\* exec.start({hijack: true, stdin: false}) settled: the process runs and the
\* duplex is handed back; the router stores the exec and yields the start event
ExecStartReturns(h, ok) ==
  /\ hs[h].op \in ExecOps /\ hs[h].pc = "exec.start"
  /\ ok => container[hs[h].c] = "running"
  /\ LET rec == hs[h]
         e   == rec.e IN
     IF ok
     THEN /\ ex' = [ex EXCEPT ![e].state = "running", ![e].stream = "open"]
          /\ CASE rec.op = "exec" ->
                    /\ execs' = ExecsOnStart(execs, ExecId(e), e)
                    /\ Put(h, [rec EXCEPT !.pc = "stream", !.started = TRUE, !.val = ExecId(e),
                                           !.cl = ClientOnStart(@)])
               [] rec.op = "Run.exec" ->
                    /\ Put(h, Finish(rec, "ok", 0))
                    /\ UNCHANGED execs
               [] OTHER ->
                    /\ Put(h, [rec EXCEPT !.pc = "exec.inspect"])
                    /\ UNCHANGED execs
     ELSE /\ Put(h, ExecFailed(rec))
          /\ UNCHANGED <<ex, execs>>
  /\ UNCHANGED <<runs, disposedOk, objVars, callVars, nExecs, imagePresent>>

\* what the engine answers to exec.inspect(): no exit code while running
InspectExitCode(e) == ex[e].exitCode

\* Run.execWait: exec.inspect() settled
ExecInspectReturns(h, ok) ==
  /\ hs[h].op \in {"execWait", "Run.execWait"} /\ hs[h].pc = "exec.inspect"
  /\ ok => container[hs[h].c] # "removed"
  /\ Put(h, IF ok THEN Finish(hs[h], "ok", ExitCodeOrDefault(InspectExitCode(hs[h].e)))
            ELSE Fail(hs[h], "Error"))
  /\ UNCHANGED <<regVars, objVars, callVars, execVars, imagePresent>>

\* the subscriptions that iterate an exec's duplex
StreamOps == {"exec", "execs.start"}

\* (variant) the newest buffered chunk is forwarded first
StreamDataNewestFirst(h) ==
  /\ hs[h].op \in StreamOps /\ hs[h].pc = "stream"
  /\ ex[hs[h].e].stream # "error"
  /\ ex[hs[h].e].buf # <<>>
  /\ LET b == ex[hs[h].e].buf IN
     /\ Put(h, [hs[h] EXCEPT !.sent = Append(@, b[Len(b)])])
     /\ ex' = [ex EXCEPT ![hs[h].e].buf = SubSeq(b, 1, Len(b) - 1)]
  /\ UNCHANGED <<regVars, objVars, callVars, nExecs, imagePresent>>

\* createRunRouter.exec: `for await (const part of duplex) yield {type: "data"}`:
\* the loop takes the oldest buffered chunk and forwards it
StreamData(h) ==
  /\ hs[h].op \in StreamOps /\ hs[h].pc = "stream"
  /\ ex[hs[h].e].stream # "error"
  /\ ex[hs[h].e].buf # <<>>
  /\ Put(h, [hs[h] EXCEPT !.sent = Append(@, Head(ex[hs[h].e].buf))])
  /\ ex' = [ex EXCEPT ![hs[h].e].buf = Tail(@)]
  /\ UNCHANGED <<regVars, objVars, callVars, nExecs, imagePresent>>

\* the duplex ended: the generator returns and the subscription completes
StreamEnd(h) ==
  /\ hs[h].op \in StreamOps /\ hs[h].pc = "stream"
  /\ ex[hs[h].e].stream = "ended"
  /\ ex[hs[h].e].buf = <<>>
  /\ Put(h, Finish(hs[h], "ok", hs[h].val))
  /\ UNCHANGED <<regVars, objVars, callVars, execVars, imagePresent>>

\* the duplex failed: the for-await loop throws and the subscription errors
StreamError(h) ==
  /\ hs[h].op \in StreamOps /\ hs[h].pc = "stream"
  /\ ex[hs[h].e].stream = "error"
  /\ Put(h, Finish(hs[h], "StreamError", hs[h].val))
  /\ UNCHANGED <<regVars, objVars, callVars, execVars, imagePresent>>

\* createRunRouter.execs.inspect
InspectStart(h, id, ok) ==
  /\ CanIssue(h)
  /\ id \in ExecIds
  /\ (ok /\ Has(execs, id)) => container[ex[execs[id]].owner] # "removed"
  /\ LET r0 == [Idle EXCEPT !.op = "inspect", !.id = id] IN
     Put(h, IF ~Has(execs, id) THEN NotFound(r0, "Exec")
            ELSE IF ok THEN Finish([r0 EXCEPT !.e = execs[id]], "ok", InspectExitCode(execs[id]))
            ELSE Fail([r0 EXCEPT !.e = execs[id]], "Error"))
  /\ UNCHANGED <<regVars, objVars, callVars, execVars, imagePresent>>

\* createRunRouter.execs.start: `await exec.start(opts)` on a stored exec,
\* then the duplex is forwarded.  The engine starts an exec once: the call
\* is rejected for an exec that is running or has run.
ExecsStartStart(h, id) ==
  /\ CanIssue(h)
  /\ id \in ExecIds
  /\ LET r0 == [Idle EXCEPT !.op = "execs.start", !.id = id] IN
     IF ~Has(execs, id)
     THEN Put(h, NotFound(r0, "Exec")) /\ UNCHANGED ex
     ELSE LET e == execs[id] IN
          IF ex[e].state = "created" /\ container[ex[e].owner] = "running"
          THEN /\ ex' = [ex EXCEPT ![e].state = "running", ![e].stream = "open"]
               /\ Put(h, [r0 EXCEPT !.pc = "stream", !.res = "pending", !.e = e,
                                     !.c = ex[e].owner])
          ELSE /\ Put(h, Fail([r0 EXCEPT !.c = ex[e].owner], "Error"))
               /\ UNCHANGED ex
  /\ UNCHANGED <<regVars, objVars, callVars, nExecs, imagePresent>>

\* createComputeRouter.download: `runs.get(id)`, then
\* `await run.container.download(path)`
DownloadStart(h, id) ==
  /\ CanIssue(h)
  /\ id \in RunIds
  /\ LET r0 == [Idle EXCEPT !.op = "download", !.id = id, !.after = id \in disposedOk] IN
     Put(h, IF ~Has(runs, id) THEN NotFound(r0, "Run")
            ELSE [r0 EXCEPT !.pc = "container.download", !.res = "pending", !.c = runs[id]])
  /\ UNCHANGED <<regVars, objVars, callVars, execVars, imagePresent>>

\* container.getArchive({path}) settled and `yield* stream` ran to the end of
\* the archive, or one of them failed
DownloadReturns(h, ok) ==
  /\ hs[h].op = "download" /\ hs[h].pc = "container.download"
  /\ ok => container[hs[h].c] \in {"running", "stopped"}
  /\ Put(h, IF ok THEN Finish(hs[h], "ok", 0) ELSE Fail(hs[h], "Error"))
  /\ UNCHANGED <<regVars, objVars, callVars, execVars, imagePresent>>

\* ---------------------------------------------------------------- engine
\* the handler iterating the duplex of exec e
Readers(e) == {h \in Handlers : hs[h].op \in StreamOps /\ hs[h].pc = "stream" /\ hs[h].e = e}
\* chunks exec e has written: the ones forwarded and the ones buffered
Written(e) == Len(ex[e].buf) + (IF Readers(e) = {} THEN 0
                                ELSE Len(hs[CHOOSE h \in Readers(e) : TRUE].sent))

\* the process writes its next output chunk (chunks are numbered in the
\* order they are written); the output of an exec whose duplex nobody
\* iterates stays unread and is not followed
EngineWrite(e) ==
  /\ Taken
  /\ ex[e].state = "running" /\ ex[e].stream = "open"
  /\ Readers(e) # {}
  /\ Written(e) < MaxChunks
  /\ ex' = [ex EXCEPT ![e].buf = Append(@, Written(e) + 1)]
  /\ last' = Idle
  /\ UNCHANGED <<regVars, objVars, callVars, nExecs, imagePresent, hs, otherVars>>

\* the process terminates by itself; its output stream ends
EngineExit(e, code) ==
  /\ Taken
  /\ ex[e].state = "running"
  /\ ex' = [ex EXCEPT ![e].state = "exited", ![e].stream = "ended", ![e].exitCode = code]
  /\ last' = Idle
  /\ UNCHANGED <<regVars, objVars, callVars, nExecs, imagePresent, hs, otherVars>>

\* the container went away under a running exec: the engine closes the
\* exec's stream, as an end or as a connection error; a stream destroyed by
\* an error hands out no more of what it had buffered
EngineKill(e, how) ==
  /\ Taken
  /\ ex[e].state = "running"
  /\ container[ex[e].owner] # "running"
  /\ ex' = [ex EXCEPT ![e].state = "killed", ![e].stream = how,
                       ![e].buf = IF how = "error" THEN <<>> ELSE @]
  /\ last' = Idle
  /\ UNCHANGED <<regVars, objVars, callVars, nExecs, imagePresent, hs, otherVars>>

EngineNext ==
  \E e \in ExecObjs :
       \/ \E code \in ExitCodes : EngineExit(e, code)
       \/ \E how \in {"ended", "error"} : EngineKill(e, how)

ExecCallSteps(h) ==
  \E ok \in BOOLEAN :
    ContainerExecReturns(h, ok) \/ ExecStartReturns(h, ok) \/ ExecInspectReturns(h, ok)

StreamSteps(h) == StreamData(h) \/ StreamEnd(h) \/ StreamError(h)

\* the consumer calls cancel() on the ReadableStream ClientRun.exec handed
\* out: the stream is closed on the client.  The underlying source has no
\* cancel callback and the handle subscribe() returned is not kept, so the
\* subscription and the container's process are left as they are
ClientCancel(h) ==
  /\ Taken
  /\ hs[h].op = "exec" /\ hs[h].pc = "stream"
  /\ hs[h].cl.stream = "open"
  /\ hs' = [hs EXCEPT ![h].cl.stream = "closed"]
  /\ UNCHANGED <<regVars, objVars, callVars, execVars, imagePresent, last, otherVars>>

\* ======================================================= specifications
\* the tRPC server
Next ==
  \/ \E h \in Handlers :
       \/ \E s \in SourceTypes, rt \in Runtimes, ps \in PortSets :
            CreateRunStart(h, TRUE, s, rt, ps)
       \/ CreateSteps(h)
       \/ \E id \in RunIds : DisposeStart(h, id)
       \/ DisposeSteps(h)
       \/ \E id \in RunIds, port \in Ports : PublicUrlStart(h, id, port)
       \/ \E id \in RunIds, cmd \in Cmds, op \in {"exec", "execWait"} :
            RouterExecStart(h, op, id, cmd)
       \/ ExecCallSteps(h)
       \/ StreamSteps(h)
       \/ ClientCancel(h)
       \/ \E id \in ExecIds, ok \in BOOLEAN : InspectStart(h, id, ok)
       \/ \E id \in ExecIds : ExecsStartStart(h, id)
       \/ \E id \in RunIds : DownloadStart(h, id)
       \/ \E ok \in BOOLEAN : DownloadReturns(h, ok)
  \/ \E e \in ExecObjs : EngineWrite(e)
  \/ EngineNext
  \/ ClientTakes

Spec == Init /\ [][Next]_vars

\* a caller of the local createRun factory
NextLocal ==
  \/ \E h \in Handlers :
       \/ \E s \in SourceTypes, rt \in Runtimes, ps \in PortSets :
            CreateRunStart(h, FALSE, s, rt, ps)
       \/ CreateSteps(h)
       \/ \E c \in Objs : RunDisposeStart(h, c)
       \/ DisposeSteps(h)
       \/ \E c \in Objs, port \in Ports : RunPublicUrl(h, c, port)
       \/ \E c \in Objs, cmd \in Cmds, op \in {"Run.exec", "Run.execWait"} :
            RunExecStart(h, op, c, cmd)
       \/ ExecCallSteps(h)
  \/ EngineNext
  \/ ClientTakes

SpecLocal == Init /\ [][NextLocal]_vars

\* the tRPC server over the containerd adapter: creation, URL lookup and
\* disposal
NextContainerd ==
  \/ \E h \in Handlers :
       \/ \E s \in SourceTypes, rt \in Runtimes, ps \in PortSets :
            CreateRunStart(h, TRUE, s, rt, ps)
       \/ ContainerdCreateSteps(h)
       \/ \E id \in RunIds, port \in Ports : PublicUrlStart(h, id, port)
       \/ \E id \in RunIds : DisposeStart(h, id)
       \/ DisposeSteps(h)
  \/ ClientTakes

\* the runtime image may be in containerd's store when the server starts
InitContainerd == (\E image \in BOOLEAN : SandboxInit(image)) /\ CloudInit(0) /\ IoInit
SpecContainerd == InitContainerd /\ [][NextContainerd]_vars
\* every awaited call of a creation settles and its continuation runs, however
\* many other requests are served in between; every response is taken
SpecContainerdFair ==
  /\ SpecContainerd
  /\ WF_vars(ClientTakes)
  /\ \A h \in Handlers : SF_vars(ContainerdCreateSteps(h))
\* the same for the server over Docker
SpecFair ==
  /\ Spec
  /\ WF_vars(ClientTakes)
  /\ \A h \in Handlers : SF_vars(CreateSteps(h))

\* =============================================================== claims
RunOf(x)      == ex[execs[x]].owner           \* the Run an exec entry belongs to
Quiescent     == \A h \in Handlers : Free(h)
SandboxOps    == {"exec", "execWait", "publicUrl"}
RunObjectOps  == {"Run.exec", "Run.execWait", "Run.publicUrl"}

C2_AllStepsAttempted ==
  /\ \A h \in Handlers : hs[h].op = "dispose" =>
       Attempted(hs[h].log) = CASE hs[h].pc = "stop"   -> <<"stop">>
                                [] hs[h].pc = "remove" -> <<"stop", "remove">>
                                [] OTHER               -> <<"stop", "remove", "rm">>
  /\ (last.op = "dispose" /\ last.res # "NotFound" /\ ~last.pre) =>
       Attempted(last.log) = <<"stop", "remove", "rm">>

C2_Witness ==
  /\ last.op = "dispose"
  /\ last.log = <<"stop", "stop.failed", "remove", "remove.failed", "rm">>

\* C3 (Spec): a dispose request for a registered sandbox never ends in an
\* error, whichever teardown step failed.
C3_DisposeNeverThrows ==
  (last.op = "dispose" /\ last.res # "NotFound") => last.res = "ok"

\* C4 (Spec): once a dispose request for a registered sandbox id has been
\* handled, the id is no longer in the sandbox registry, whichever teardown
\* step failed.
C4_EntryRemovedUnconditionally ==
  (last.op = "dispose" /\ last.res # "NotFound") => ~Has(runs, last.id)

\* C5 (Spec): an exec, execWait or publicUrl request issued for a sandbox id
\* after a dispose request for that id returned success fails with NotFound
\* at once: it is never left in flight and never succeeds.
C5_RequestsAfterDisposeFail ==
  /\ \A h \in Handlers : hs[h].op \in SandboxOps => ~hs[h].after
  /\ (last.op \in SandboxOps /\ last.after) => last.res = "NotFound"

C5_Witness ==
  /\ last.op = "exec" /\ last.after /\ last.res = "NotFound"
  /\ last.id \in disposedOk /\ ~Has(runs, last.id)

\* C6 (SpecLocal): on a Run whose cleaned flag is set, exec, execWait and
\* publicUrl fail with a gone error: no exec call reaches the container and
\* no URL is returned.
C6_DisposedRunRejects ==
  /\ \A h \in Handlers : hs[h].op \in RunObjectOps => ~hs[h].pre
  /\ (last.op \in RunObjectOps /\ last.pre) => last.res = "SandboxDisposed"

\* C7 (Spec): a dispose request for a sandbox id that an earlier dispose
\* request tore down returns success.
C7_DisposeRequestRepeatable ==
  (last.op = "dispose" /\ last.after) => last.res = "ok"

\* C8 (Spec): no exec entry of a sandbox that was disposed through the
\* bridge stays in the exec registry, so an inspect of its id is NotFound.
C8_NoExecEntryOfDisposedSandbox ==
  /\ \A x \in DOMAIN execs : RunId(RunOf(x)) \notin disposedOk
  /\ (last.op = "inspect" /\ last.res # "NotFound") => RunId(RunOf(last.id)) \notin disposedOk

\* C9 (Spec): when a streaming exec request and a successful dispose request
\* on the same sandbox id have both terminated, in whatever order their steps
\* ran, the sandbox registry holds no entry for the id and the exec registry
\* holds no entry for an exec of that sandbox.
C9_NoStrayEntriesAfterExecAndDispose ==
  Quiescent =>
    \A c \in Objs : RunId(c) \in disposedOk =>
      /\ ~Has(runs, RunId(c))
      /\ \A x \in DOMAIN execs : RunOf(x) # c

\* C10 (Spec): every id in the sandbox registry designates a Run whose
\* workspace allocation, source materialization, image resolution, container
\* create, container start and port-map extraction all succeeded; a creation
\* request that is in flight or has failed has constructed and registered
\* no Run.
C10_OnlyProvisionedRegistered ==
  /\ \A id \in DOMAIN runs :
       /\ ProvisioningSteps \subseteq provisioned[runs[id]]
       /\ runObj[runs[id]] = "router"
  /\ \A h \in Handlers : hs[h].op = "createRun" => hs[h].c = 0
  /\ (last.op = "createRun" /\ last.res # "ok") => (last.c = 0 /\ last.id = BogusId)
  /\ Cardinality({c \in Objs : runObj[c] = "router"}) = nObjs

C10_Witness ==
  /\ last.op = "createRun" /\ last.res = "ok"
  /\ Has(runs, last.id) /\ runs[last.id] = last.c
  /\ "pullImage" \in provisioned[last.c]

\* steps a log records
Logged(log) == {log[i] : i \in DOMAIN log}
\* the awaited calls of a creation that follow source materialization
StepsAfterSource == {"imageInspect", "pullImage", "followProgress",
                     "createContainer", "start", "inspect"}
\* ... and those that follow image resolution
StepsAfterImage  == {"createContainer", "start", "inspect"}

\* C11 (Spec): when a creation request fails after its workspace was
\* allocated, the temp directory of that creation is gone by the time the
\* error is returned.
C11_TmpDirReleasedOnFailure ==
  (last.op = "createRun" /\ last.res # "ok") => last.tmp # "present"

\* C12 (Spec): image inspect, image pull and container create are called
\* only in a creation whose source materialization has succeeded; a creation
\* that ended without materializing its source resolved no image and
\* produced no container.
C12_NothingAfterFailedSource ==
  /\ \A h \in Handlers : (IsCreate(h) /\ hs[h].pc \in StepsAfterSource) =>
       "materializeSource" \in Logged(hs[h].log)
  /\ (last.op \in CreateOps /\ "materializeSource" \notin Logged(last.log)) =>
       /\ last.res # "ok"
       /\ Logged(last.log) \subseteq {"prepareWorkspace"}
       /\ last.ctr = "none"

\* a git clone failed in an allocated workspace
C12_Witness ==
  /\ last.op = "createRun" /\ last.res = "Error"
  /\ last.log = <<"prepareWorkspace">> /\ last.tmp = "present"

\* the runtime tags the specification fixes as supported
SupportedTags == {"node22", "node20"}

C14_NoContainerAfterFailedPull ==
  /\ \A h \in Handlers : (IsCreate(h) /\ hs[h].pc \in StepsAfterImage) =>
       "image" \in Logged(hs[h].log)
  /\ \A h \in Handlers : (IsCreate(h) /\ hs[h].pc \notin StepsAfterImage) =>
       hs[h].ctr = "none"
  /\ (last.op \in CreateOps /\ "image" \notin Logged(last.log)) =>
       (last.res # "ok" /\ last.ctr = "none")

\* the pull call succeeded and its progress stream ended in an error
C14_Witness ==
  /\ last.op = "createRun" /\ last.res = "Error"
  /\ last.log = <<"prepareWorkspace", "materializeSource", "pullImage">>
  /\ last.ctr = "none" /\ ~imagePresent

\* C15 (SpecContainerd): every Run created with port p in its ports has a
\* non-zero host port for p in its portMap, and a publicUrl request for p
\* answers with the URL of exactly that host port.
C15_PublishedPortsResolve ==
  /\ \A c \in 1..nObjs : \A p \in published[c] :
       /\ p \in DOMAIN portMap[c]
       /\ portMap[c][p] # 0
  /\ (last.op = "publicUrl" /\ last.res # "NotFound" /\ last.port \in published[last.c]) =>
       (last.res = "ok" /\ last.val = portMap[last.c][last.port])

\* C16 (Spec): no Run maps a port that was not in the ports of its creation
\* request, and a publicUrl request for such a port on a registered sandbox
\* fails with PortNotPublished and carries no URL.
C16_UnpublishedPortRejected ==
  /\ \A c \in 1..nObjs : DOMAIN portMap[c] \subseteq published[c]
  /\ (last.op = "publicUrl" /\ last.res # "NotFound" /\ last.port \notin published[last.c]) =>
       (last.res = "PortNotPublished" /\ last.val = 0)

C16_Witness ==
  /\ last.op = "publicUrl" /\ last.port = 8080 /\ last.res = "PortNotPublished"
  /\ published[last.c] = {3000} /\ DOMAIN portMap[last.c] = {3000}

\* C17 (Spec): an exec or execWait whose cmd is empty fails with
\* MissingCommand in the call itself: it never awaits a call on the
\* container, so no exec instance is created or started for it and nothing
\* is streamed.
C17_MissingCommandBeforeContainer ==
  /\ \A h \in Handlers : hs[h].op \in ExecOps => hs[h].cmd # ""
  /\ (last.op \in ExecOps /\ last.cmd = "") =>
       (last.res = "MissingCommand" /\ ~last.started)
  /\ last.res = "MissingCommand" => (last.op \in ExecOps /\ last.cmd = "")

C17_Witness ==
  /\ last.op = "execWait" /\ last.cmd = "" /\ last.res = "MissingCommand"
  /\ container[last.c] = "running" /\ nExecs = 0

\* C18 (Spec): an execWait answers only once the exec's process has
\* terminated, and its answer is that process's exit code, or -1 when the
\* engine has no exit code for the terminated exec; it never answers while
\* the exec is still running.
C18_ExecWaitAfterTermination ==
  [][\A h \in Handlers :
       (/\ hs[h].op \in {"execWait", "Run.execWait"}
        /\ hs[h].pc = "exec.inspect"
        /\ hs'[h].op = "idle"
        /\ last'.res = "ok") =>
         /\ ex[hs[h].e].state # "running"
         /\ last'.val = ExitCodeOrDefault(ex[hs[h].e].exitCode)]_vars

\* the first n chunks in the order they were written
InOrder(n) == [i \in 1..n |-> i]

\* C19 (Spec): a streaming exec emits its start event, carrying the id the
\* exec was just stored under, when it begins to stream and before any data
\* event; the data events it has emitted are the chunks written so far, in
\* the order they were written; it completes only when the output stream
\* has ended and every chunk was forwarded, and its response is then final.
C19_StartThenChunksInOrder ==
  /\ [](\A h \in Handlers : hs[h].op = "exec" =>
          /\ hs[h].started <=> hs[h].pc = "stream"
          /\ ~hs[h].started => hs[h].sent = <<>>
          /\ hs[h].started =>
               /\ hs[h].val = ExecId(hs[h].e)
               /\ Has(execs, hs[h].val) /\ execs[hs[h].val] = hs[h].e
               /\ hs[h].sent \o ex[hs[h].e].buf = InOrder(Written(hs[h].e)))
  /\ [][\A h \in Handlers :
          (hs[h].op = "exec" /\ hs'[h].op = "idle" /\ last'.res = "ok") =>
            /\ hs[h].started
            /\ ex[hs[h].e].stream = "ended"
            /\ last'.sent = InOrder(Written(hs[h].e))
            /\ last'.val = hs[h].val]_vars

\* a response that completed after forwarding two chunks
C19_Witness ==
  /\ last.op = "exec" /\ last.res = "ok" /\ last.started
  /\ last.sent = <<1, 2>> /\ Has(execs, last.val)

\* C20 (Spec): when the output stream of a streaming exec fails after the
\* start event was emitted, the stream the client handed to its consumer
\* ends in an error state, not as a normal end of output.
C20_StreamFailureReachesConsumer ==
  (last.op = "exec" /\ last.started /\ last.res # "ok") => last.cl.stream = "errored"

\* the registry an id-bearing route looks its id up in, and the entity kind
\* its NOT_FOUND message names
RunRoutes   == {"exec", "execWait", "publicUrl", "dispose", "download"}
ExecRoutes  == {"inspect", "execs.start"}
Registered(op, id) == IF op \in RunRoutes THEN Has(runs, id) ELSE Has(execs, id)
KindOf(op)  == IF op \in RunRoutes THEN "Run" ELSE "Exec"

\* C21 (Spec): a request of an id-bearing route (exec, execWait, publicUrl,
\* dispose, download with a sandbox id; execs.inspect, execs.start with an
\* exec id) whose id is not in the registry is answered NotFound, naming the
\* id and the entity kind; it is answered at once, reaches no Run and no
\* exec instance, and leaves both registries, every container, every
\* workspace directory and every exec instance as they were.  A request is
\* taken further only when its id is registered.
C21_UnknownIdIsNotFound ==
  /\ [](last.res = "NotFound" =>
          /\ last.op \in RunRoutes \cup ExecRoutes
          /\ last.entity = KindOf(last.op)
          /\ ~Registered(last.op, last.id)
          /\ last.c = 0 /\ last.e = 0)
  /\ [][/\ last'.res = "NotFound" =>
             /\ hs' = hs
             /\ UNCHANGED <<regVars, objVars, callVars, execVars, imagePresent>>
        /\ \A h \in Handlers :
             (Free(h) /\ hs'[h].op \in RunRoutes \cup ExecRoutes) =>
               Registered(hs'[h].op, hs'[h].id)
        /\ (hs' = hs /\ last'.op \in RunRoutes \cup ExecRoutes
              /\ ~Registered(last'.op, last'.id)) =>
             last'.res = "NotFound"]_vars

\* a download was answered NotFound for an id that was given out once: the
\* id of a sandbox already disposed of
C21_Witness ==
  /\ last.res = "NotFound" /\ last.op = "download" /\ last.entity = "Run"
  /\ last.id # BogusId /\ last.id \in disposedOk

\* every id the two registries can hold
AllIds == 0..(MaxRuns + MaxExecs)
Injective(m) == \A i, j \in DOMAIN m : m[i] = m[j] => i = j

DockerPortKeys(ports) == {DOMAIN GetPortMappings(b) : b \in EngineBindings(ports)}

\* C23 (SpecContainerd): a Run created through the containerd adapter has
\* the portMap keys the Docker adapter gives a Run created from the same
\* request.
C23_SamePortMapKeysAsDocker ==
  \A c \in 1..nObjs : DOMAIN portMap[c] \in DockerPortKeys(published[c])

\* dispose calls in flight on Run object c
Disposing(c) == {h \in Handlers : IsDispose(h) /\ hs[h].c = c}

\* C24 (SpecLocal): while two dispose() calls on the same Run overlap,
\* container.stop, container.remove and the temp-directory removal have each
\* been invoked at most once for that Run.
C24_OverlappingDisposeTearsDownOnce ==
  \A c \in 1..nObjs :
    Cardinality(Disposing(c)) >= 2 =>
      stopCalls[c] <= 1 /\ removeCalls[c] <= 1 /\ rmCalls[c] <= 1

\* ================================================== cloud task pipeline
MaxTasks   == 2            \* tasks submitted to the starter
Priorities == {0, 4, 5}    \* TaskRequest.priority (absent: 0)
Thresholds == {0, 8}       \* SchedulerEvent.priorityThreshold (absent: 0)
Backlogs   == {0, 51}      \* messages of other producers in the standard queue

\* ApproximateNumberOfMessages of a queue
Depth(q) == q.backlog + Len(q.msgs) - Cardinality(q.deleted)
SendMessage(q, m) == [q EXCEPT !.msgs = Append(@, m)]
\* task ids of the items a Scan with `status = PENDING` returns, in order
RECURSIVE Ascending(_)
Ascending(S) ==
  IF S = {} THEN <<>>
  ELSE LET m == CHOOSE x \in S : \A y \in S : x <= y IN <<m>> \o Ascending(S \ {m})
Pending == Ascending({t \in DOMAIN taskTable : taskTable[t].status = "PENDING"})

\* starter.ts, handleDirectRequest: `const useHighPriorityQueue = priority >= 5`
StarterUsesPriorityQueue(priority) == priority >= 5
\* scheduler.ts, handler: `event.priorityThreshold || 5`
PriorityThreshold(th) == IF th = 0 THEN 5 ELSE th
\* scheduler.ts, handler: `priority >= priorityThreshold ||
\* (mainQueueDepth > 50 && priorityQueueDepth < 10)`
SchedulerUsesPriorityQueue(priority, th, mainDepth, priorityDepth) ==
  priority >= th \/ (mainDepth > 50 /\ priorityDepth < 10)

\* handleDirectRequest up to its first await: PutItem of the PENDING task
StarterStart(priority) ==
  /\ starter.pc = "-"
  /\ Cardinality(DOMAIN taskTable) < MaxTasks
  /\ LET taskId == Cardinality(DOMAIN taskTable) + 1 IN
     /\ taskTable' = MapSet(taskTable, taskId,
                            [priority |-> priority, status |-> "PENDING", queueType |-> "-",
                             taskArn |-> 0])
     /\ starter' = [NoLambda EXCEPT !.pc = "send", !.taskId = taskId, !.priority = priority]
  /\ UNCHANGED <<computeQueue, computePriorityQueue, scheduler, runVars, ioVars, sandboxVars>>

\* PutItem settled; SendMessage to the queue chosen by priority settles, and
\* the starter answers 202, or 500 when a call failed
StarterSendReturns(ok) ==
  /\ starter.pc = "send"
  /\ LET m == [taskId |-> starter.taskId, priority |-> starter.priority, by |-> "starter"] IN
     IF ok /\ StarterUsesPriorityQueue(starter.priority)
     THEN /\ computePriorityQueue' = SendMessage(computePriorityQueue, m)
          /\ UNCHANGED computeQueue
     ELSE IF ok
     THEN /\ computeQueue' = SendMessage(computeQueue, m)
          /\ UNCHANGED computePriorityQueue
     ELSE UNCHANGED <<computeQueue, computePriorityQueue>>
  /\ starter' = NoLambda
  /\ UNCHANGED <<taskTable, scheduler, runVars, ioVars, sandboxVars>>

\* scheduler handler invoked: the Scan of PENDING tasks is sent
SchedulerStart(th) ==
  /\ scheduler.pc = "-"
  /\ taskTable # <<>>
  /\ scheduler' = [NoLambda EXCEPT !.pc = "scan", !.threshold = PriorityThreshold(th)]
  /\ UNCHANGED <<taskTable, computeQueue, computePriorityQueue, starter, runVars, ioVars, sandboxVars>>

\* the Scan settled: nothing pending ends the batch, else the queue depths
\* are asked for
ScanReturns ==
  /\ scheduler.pc = "scan"
  /\ scheduler' = IF Pending = <<>> THEN NoLambda
                  ELSE [scheduler EXCEPT !.pc = "depths", !.items = Pending]
  /\ UNCHANGED <<taskTable, computeQueue, computePriorityQueue, starter, runVars, ioVars, sandboxVars>>

\* both GetQueueAttributes settled
DepthsReturn ==
  /\ scheduler.pc = "depths"
  /\ scheduler' = [scheduler EXCEPT !.pc = "send",
                                    !.mainDepth = Depth(computeQueue),
                                    !.priorityDepth = Depth(computePriorityQueue)]
  /\ UNCHANGED <<taskTable, computeQueue, computePriorityQueue, starter, runVars, ioVars, sandboxVars>>

\* one pass of the loop: SendMessage for the next item and the UpdateItem that
\* marks it QUEUED settled (failed: "-", or "send" when the message could
\* not be sent); a failure is logged and the loop goes on
SchedulerSendReturns(failed) ==
  /\ scheduler.pc = "send"
  /\ LET taskId   == Head(scheduler.items)
         priority == taskTable[taskId].priority
         high     == SchedulerUsesPriorityQueue(priority, scheduler.threshold,
                                                scheduler.mainDepth, scheduler.priorityDepth)
         m        == [taskId |-> taskId, priority |-> priority, by |-> "scheduler"]
         rest     == Tail(scheduler.items) IN
     /\ IF failed # "send" /\ high
        THEN /\ computePriorityQueue' = SendMessage(computePriorityQueue, m)
             /\ UNCHANGED computeQueue
        ELSE IF failed # "send"
        THEN /\ computeQueue' = SendMessage(computeQueue, m)
             /\ UNCHANGED computePriorityQueue
        ELSE UNCHANGED <<computeQueue, computePriorityQueue>>
     /\ taskTable' = IF failed = "-"
                     THEN [taskTable EXCEPT ![taskId].status = "QUEUED",
                                            ![taskId].queueType =
                                               IF high THEN "priority" ELSE "standard"]
                     ELSE taskTable
     /\ scheduler' = IF rest = <<>> THEN NoLambda ELSE [scheduler EXCEPT !.items = rest]
  /\ UNCHANGED <<starter, runVars, ioVars, sandboxVars>>

\* ---------------------------------------------------- queue processing
MaxDeliveries == 2         \* queue messages delivered to the starter lambda
QueueNames == {"standard", "priority"}
Queue(name) == IF name = "priority" THEN computePriorityQueue ELSE computeQueue
\* positions of the messages a queue still holds
Visible(q) == DOMAIN q.msgs \ q.deleted
Terminal == {"SUCCESS", "FAILED"}

\* processSQSMessages: PutItem {taskId, status: "RUNNING", startedAt[, taskArn]}
\* replaces the item whatever its status is; of the attributes followed here
\* only status and taskArn are in the new item (`priority` stays as the value
\* the scheduler's Scan had read)
MarkRunning(item, arn) ==
  [item EXCEPT !.status = "RUNNING", !.taskArn = arn, !.queueType = "-"]

\* the event source hands one message of a queue to the starter lambda:
\* processSQSMessages up to its first await, the PutItem of RUNNING
ReceiveMessage(name, i) ==
  /\ processor.pc = "-"
  /\ nReceived < MaxDeliveries
  /\ i \in Visible(Queue(name))
  /\ nReceived' = nReceived + 1
  /\ processor' = [NoProcessor EXCEPT !.pc = "put", !.queue = name, !.index = i,
                                      !.taskId = Queue(name).msgs[i].taskId,
                                      !.priority = Queue(name).msgs[i].priority]
  /\ UNCHANGED <<taskTable, computeQueue, computePriorityQueue, starter, scheduler,
                 ecsTasks, poller, ioVars, sandboxVars>>

\* the first PutItem settled; task.run is awaited next.  A failure is caught
\* and logged, and the record is done
ProcessorPutReturns(ok) ==
  /\ processor.pc = "put"
  /\ taskTable' = IF ok THEN [taskTable EXCEPT ![processor.taskId] = MarkRunning(@, 0)]
                  ELSE taskTable
  /\ processor' = [processor EXCEPT !.pc = IF ok THEN "run" ELSE "return"]
  /\ UNCHANGED <<computeQueue, computePriorityQueue, starter, scheduler, nReceived,
                 ecsTasks, poller, ioVars, sandboxVars>>

\* task.run settled: a Fargate task runs the entrypoint for the task id;
\* the second PutItem, with the task's ARN, is awaited next
TaskRunReturns(ok) ==
  /\ processor.pc = "run"
  /\ IF ok
     THEN /\ ecsTasks' = Append(ecsTasks, [taskId |-> processor.taskId,
                                           lastStatus |-> "RUNNING", exitCode |-> 0])
          /\ processor' = [processor EXCEPT !.pc = "putArn", !.arn = Len(ecsTasks) + 1]
     ELSE /\ processor' = [processor EXCEPT !.pc = "return"]
          /\ UNCHANGED ecsTasks
  /\ UNCHANGED <<taskTable, computeQueue, computePriorityQueue, starter, scheduler,
                 nReceived, poller, ioVars, sandboxVars>>

\* the second PutItem settled
ProcessorPutArnReturns(ok) ==
  /\ processor.pc = "putArn"
  /\ taskTable' = IF ok THEN [taskTable EXCEPT ![processor.taskId] = MarkRunning(@, processor.arn)]
                  ELSE taskTable
  /\ processor' = [processor EXCEPT !.pc = "return"]
  /\ UNCHANGED <<computeQueue, computePriorityQueue, starter, scheduler, nReceived,
                 ecsTasks, poller, ioVars, sandboxVars>>

\* processSQSMessages returns 200 whether the record failed or not, and the
\* event source deletes the message; a standard queue may still deliver a
\* message again (deleted = FALSE)
ProcessorReturns(deleted) ==
  /\ processor.pc = "return"
  /\ LET q  == Queue(processor.queue)
         q2 == IF deleted THEN [q EXCEPT !.deleted = @ \cup {processor.index}] ELSE q IN
     IF processor.queue = "priority"
     THEN computePriorityQueue' = q2 /\ UNCHANGED computeQueue
     ELSE computeQueue' = q2 /\ UNCHANGED computePriorityQueue
  /\ processor' = NoProcessor
  /\ UNCHANGED <<taskTable, starter, scheduler, nReceived, ecsTasks, poller,
                 ioVars, sandboxVars>>

\* ------------------------------------------------ container entrypoint
\* entrypoint.ts, main: `taskId || process.env.TASK_ID`: the id the status
\* is written under is the last segment of the Fargate task's ARN when the
\* metadata endpoint answers, and the pipeline's task id otherwise
\* (the id of Fargate task k: a key no submitted task is stored under)
EcsTaskId(k) == MaxTasks + k
FinalTaskId(k, metadata) == IF metadata THEN EcsTaskId(k) ELSE ecsTasks[k].taskId

\* entrypoint.ts, updateTaskStatus: UpdateItem SET status = SUCCESS | FAILED
Completed(item, success) ==
  [item EXCEPT !.status = IF success THEN "SUCCESS" ELSE "FAILED"]

\* the command of Fargate task k finished, the UpdateItem of updateTaskStatus
\* settled (a failure is logged) and the process exited: with code 1 from
\* the catch branch of main, with 0 otherwise.  An update under the Fargate
\* task's own id touches no item of a submitted task
EntrypointExits(k, success, metadata, ok) ==
  /\ k \in DOMAIN ecsTasks
  /\ ecsTasks[k].lastStatus = "RUNNING"
  /\ LET key == FinalTaskId(k, metadata) IN
     taskTable' = IF ok /\ key \in DOMAIN taskTable
                  THEN [taskTable EXCEPT ![key] = Completed(@, success)]
                  ELSE taskTable
  /\ ecsTasks' = [ecsTasks EXCEPT ![k].lastStatus = "STOPPED",
                                  ![k].exitCode = IF success THEN 0 ELSE 1]
  /\ UNCHANGED <<computeQueue, computePriorityQueue, starter, scheduler, processor,
                 nReceived, poller, ioVars, sandboxVars>>

\* ------------------------------------------------------ status endpoint
\* status.ts, handler: `isComplete: taskData.status !== "RUNNING"`
IsComplete(status) == status # "RUNNING"

\* the answer of the status handler for a task whose status it takes to be
\* `status`
Reply(p, status) ==
  [p EXCEPT !.pc = "reply", !.code = 200, !.status = status,
            !.isComplete = IsComplete(status)]

\* status handler invoked for a submitted task: GetItem is sent
StatusStart(taskId) ==
  /\ poller.pc = "-"
  /\ taskId \in DOMAIN taskTable
  /\ poller' = [NoPoller EXCEPT !.pc = "get", !.taskId = taskId]
  /\ UNCHANGED <<taskTable, computeQueue, computePriorityQueue, starter, scheduler,
                 processor, nReceived, ecsTasks, ioVars, sandboxVars>>

\* GetItem settled.  A RUNNING task is looked up in ECS under its taskArn; an
\* item that has none yet makes `taskData.taskArn.split` throw, which the
\* handler answers with 500.  Any other status is answered at once
GetItemReturns ==
  /\ poller.pc = "get"
  /\ LET item == taskTable[poller.taskId] IN
     poller' = IF item.status # "RUNNING" THEN Reply(poller, item.status)
               ELSE IF item.taskArn = 0
               THEN [poller EXCEPT !.pc = "reply", !.code = 500, !.status = item.status]
               ELSE [poller EXCEPT !.pc = "describe", !.status = item.status,
                                   !.arn = item.taskArn]
  /\ UNCHANGED <<taskTable, computeQueue, computePriorityQueue, starter, scheduler,
                 processor, nReceived, ecsTasks, ioVars, sandboxVars>>

\* DescribeTasks settled: a STOPPED task is SUCCESS when its container
\* exited with 0 and FAILED otherwise, and the UpdateItem of that status is
\* sent; a failure is logged and the status read stays
DescribeTasksReturns(ok) ==
  /\ poller.pc = "describe"
  /\ LET task == ecsTasks[poller.arn] IN
     poller' = IF ok /\ task.lastStatus = "STOPPED"
               THEN [poller EXCEPT !.pc = "update",
                                   !.status = IF task.exitCode = 0 THEN "SUCCESS" ELSE "FAILED"]
               ELSE Reply(poller, "RUNNING")
  /\ UNCHANGED <<taskTable, computeQueue, computePriorityQueue, starter, scheduler,
                 processor, nReceived, ecsTasks, ioVars, sandboxVars>>

\* the UpdateItem of the status handler settled
StatusUpdateReturns(ok) ==
  /\ poller.pc = "update"
  /\ taskTable' = IF ok THEN [taskTable EXCEPT ![poller.taskId].status = poller.status]
                  ELSE taskTable
  /\ poller' = Reply(poller, IF ok THEN poller.status ELSE "RUNNING")
  /\ UNCHANGED <<computeQueue, computePriorityQueue, starter, scheduler,
                 processor, nReceived, ecsTasks, ioVars, sandboxVars>>

\* the answer was sent
StatusReplies ==
  /\ poller.pc = "reply"
  /\ poller' = NoPoller
  /\ UNCHANGED <<taskTable, computeQueue, computePriorityQueue, starter, scheduler,
                 processor, nReceived, ecsTasks, ioVars, sandboxVars>>

NextCloud ==
  \/ \E priority \in Priorities : StarterStart(priority)
  \/ \E ok \in BOOLEAN : StarterSendReturns(ok)
  \/ \E th \in Thresholds : SchedulerStart(th)
  \/ ScanReturns
  \/ DepthsReturn
  \/ \E failed \in {"-", "send"} : SchedulerSendReturns(failed)

InitCloud == SandboxInit(FALSE) /\ (\E b \in Backlogs : CloudInit(b)) /\ IoInit
SpecCloud == InitCloud /\ [][NextCloud]_vars

\* the pipeline with its queue processor, the Fargate tasks and the status
\* endpoint
MaxRunTasks == 1           \* tasks submitted while the pipeline is followed to the end
RunStarterStart(priority) ==
  /\ Cardinality(DOMAIN taskTable) < MaxRunTasks
  /\ StarterStart(priority)
NextCloudRun ==
  \/ \E priority \in Priorities : RunStarterStart(priority)
  \/ \E ok \in BOOLEAN : StarterSendReturns(ok)
  \/ \E th \in Thresholds : SchedulerStart(th)
  \/ ScanReturns
  \/ DepthsReturn
  \/ \E failed \in {"-", "send"} : SchedulerSendReturns(failed)
  \/ \E name \in QueueNames, i \in 1..(2 * MaxTasks) : ReceiveMessage(name, i)
  \/ \E ok \in BOOLEAN : ProcessorPutReturns(ok)
  \/ \E ok \in BOOLEAN : TaskRunReturns(ok)
  \/ \E ok \in BOOLEAN : ProcessorPutArnReturns(ok)
  \/ \E deleted \in BOOLEAN : ProcessorReturns(deleted)
  \/ \E k \in 1..MaxDeliveries, success, metadata, ok \in BOOLEAN :
       EntrypointExits(k, success, metadata, ok)
  \/ \E taskId \in 1..MaxTasks : StatusStart(taskId)
  \/ GetItemReturns
  \/ \E ok \in BOOLEAN : DescribeTasksReturns(ok)
  \/ \E ok \in BOOLEAN : StatusUpdateReturns(ok)
  \/ StatusReplies

SpecCloudRun == Init /\ [][NextCloudRun]_vars

Messages(q) == {q.msgs[i] : i \in DOMAIN q.msgs}

\* C25 (SpecCloud): every message in the priority queue is of a task with
\* priority 5 or more, and every message in the standard queue is of a task
\* with priority 0 to 4, whether the starter or the scheduler sent it.
C25_PriorityQueueIffHighPriority ==
  /\ \A m \in Messages(computePriorityQueue) : m.priority >= 5
  /\ \A m \in Messages(computeQueue) : m.priority < 5

\* C26 (Spec): whenever an entry leaves the sandbox registry, container.stop
\* has been called and the temp-directory removal has been attempted for the
\* Run it designated.
C26_EntryRemovedAfterTeardown ==
  [][\A id \in AllIds :
       (Has(runs, id) /\ ~Has(runs', id)) =>
         /\ stopCalls'[runs[id]] >= 1
         /\ rmCalls'[runs[id]] >= 1]_vars

\* an entry was removed by a dispose whose stop and remove had both failed
C26_Witness ==
  /\ last.op = "dispose" /\ last.res = "ok" /\ ~Has(runs, last.id)
  /\ last.log = <<"stop", "stop.failed", "remove", "remove.failed", "rm">>
  /\ rmCalls[last.c] = 1

\* C27 (SpecLocal): the cleaned flag of a Run is set only when stop,
\* remove(force) and the temp-directory removal have all been attempted for
\* it, the step that sets it is the one in which the removal settled, and a
\* flag that is set stays set.
C27_CleanedOnlyAfterThreeSteps ==
  /\ [](\A c \in Objs : cleaned[c] =>
          stopCalls[c] >= 1 /\ removeCalls[c] >= 1 /\ rmCalls[c] >= 1)
  /\ [][\A c \in Objs :
          /\ cleaned[c] => cleaned'[c]
          /\ (~cleaned[c] /\ cleaned'[c]) =>
               \E h \in Handlers : /\ hs[h].op = "Run.dispose" /\ hs[h].pc = "rm"
                                   /\ hs[h].c = c /\ hs'[h].op = "idle"]_vars

\* the flag was set by one of two overlapping dispose calls while the other
\* was still tearing down
C27_Witness ==
  \E c \in Objs : cleaned[c] /\ stopCalls[c] = 2 /\ Disposing(c) # {}

FollowingProgress(h) == IsCreate(h) /\ hs[h].pc = "followProgress"

\* C28 (SpecContainerdFair): pullImageIfMissing calls pullImage exactly when
\* the image inspect failed, goes on to create the container only from a
\* successful inspect or from the end of the progress stream, and once it
\* follows the progress stream of a pull it eventually returns.
C28_PullIffMissingAndAwaited ==
  /\ [][\A h \in Handlers :
          /\ (IsCreate(h) /\ hs[h].pc = "imageInspect" /\ hs'[h] # hs[h]) =>
               /\ hs'[h].pc = "pullImage" <=> ~imagePresent
               /\ hs'[h].pc = "createContainer" <=> imagePresent
          /\ (IsCreate(h) /\ hs[h].pc # "createContainer"
                /\ hs'[h].pc = "createContainer") =>
               hs[h].pc \in {"imageInspect", "followProgress"}]_vars
  /\ \A h \in Handlers : FollowingProgress(h) ~> ~FollowingProgress(h)

\* C29 (Spec): the portMap of a Run that exists is never written again,
\* whatever request is served, and neither are the ports it was created
\* with; a publicUrl request on a registered sandbox is answered from that
\* map alone: the URL of the host port for a port the sandbox was created
\* with, PortNotPublished for any other, each time it is asked.
C29_PortMapWrittenOnce ==
  /\ [][\A c \in 1..nObjs :
          portMap'[c] = portMap[c] /\ published'[c] = published[c]]_vars
  /\ [](\A c \in 1..nObjs : DOMAIN portMap[c] = published[c])
  /\ []((last.op = "publicUrl" /\ last.res # "NotFound") =>
          IF last.port \in published[last.c]
          THEN last.res = "ok" /\ last.val = portMap[last.c][last.port]
          ELSE last.res = "PortNotPublished")

\* a publicUrl request was answered with the mapped port after a dispose of
\* the sandbox had removed the container and failed at the directory
C29_Witness ==
  /\ last.op = "publicUrl" /\ last.res = "ok" /\ last.val \in HostPorts
  /\ container[last.c] = "removed" /\ rmCalls[last.c] = 1 /\ Has(runs, last.id)

\* ======================================== streams of a containerd exec
IoStreams == {"stdout", "stderr"}
Other(which) == IF which = "stdout" THEN "stderr" ELSE "stdout"

\* `io.stderr.ended` / `io.stdout.ended` as the 'end' listeners read it: true
\* only if the library's stream object keeps such a property and the stream
\* has ended; a stream object without the property gives undefined
EndedProp(which) == io.endedProp /\ io[which] = "ended"
\* the test of the 'end' listener of stream `which`:
\* `!io.<other> || io.<other>.ended`
PushesEof(which) == io[Other(which)] = "absent" \/ EndedProp(Other(which))

\* ContainerdExecInstance.start: `io = await this.exec.start()`, the Duplex is
\* built and the 'data' and 'end' listeners are attached to the streams io has
ExecIoStart(out, err, prop) ==
  /\ duplex.state = "-"
  /\ out \/ err
  /\ io' = [stdout |-> IF out THEN "open" ELSE "absent",
            stderr |-> IF err THEN "open" ELSE "absent",
            endedProp |-> prop, container |-> "running"]
  /\ duplex' = [NoDuplex EXCEPT !.state = "open"]
  /\ UNCHANGED <<cloudVars, sandboxVars>>

\* a 'data' event of stdout or stderr: `duplex.push(data)`
IoData(which) ==
  /\ io[which] = "open" /\ duplex.state = "open"
  /\ io.container = "running"
  /\ Len(duplex.data) < MaxChunks
  /\ duplex' = [duplex EXCEPT !.data = Append(@, which)]
  /\ UNCHANGED <<io, cloudVars, sandboxVars>>

\* the 'end' event of stdout or stderr: `duplex.push(null)` if the other
\* stream is missing or reports that it has ended
IoEnd(which) ==
  /\ io[which] = "open"
  /\ io' = [io EXCEPT ![which] = "ended"]
  /\ duplex' = IF PushesEof(which)
               THEN [duplex EXCEPT !.state = "ended", !.eofs = @ + 1]
               ELSE duplex
  /\ UNCHANGED <<cloudVars, sandboxVars>>

\* the consumer iterating the Duplex takes the next chunk pushed to it
DuplexRead ==
  /\ duplex.read < Len(duplex.data)
  /\ duplex' = [duplex EXCEPT !.read = @ + 1]
  /\ UNCHANGED <<io, cloudVars, sandboxVars>>

\* ContainerdContainerInstance.remove({force: true}), called by Run.dispose
\* while the exec runs: the task is killed and deleted, the container deleted
IoContainerRemoved ==
  /\ io.container = "running"
  /\ io' = [io EXCEPT !.container = "removed"]
  /\ UNCHANGED <<duplex, cloudVars, sandboxVars>>

NextIo ==
  \/ \E out, err, prop \in BOOLEAN : ExecIoStart(out, err, prop)
  \/ \E which \in IoStreams : IoData(which)
  \/ \E which \in IoStreams : IoEnd(which)
  \/ DuplexRead
  \/ IoContainerRemoved

\* each output stream of the process is closed at some time (by the process,
\* or by the engine when the container is removed), and the consumer goes on
\* reading what was pushed
SpecExecIo ==
  /\ Init /\ [][NextIo]_vars
  /\ \A which \in IoStreams : WF_vars(IoEnd(which))
  /\ WF_vars(DuplexRead)

AllOutputEnded == duplex.state # "-" /\ \A which \in IoStreams : io[which] # "open"

\* C30 (SpecExecIo): the Duplex of a started containerd exec has not ended
\* while stdout or stderr is open, and once every output stream the exec has
\* is ended the Duplex ends, whichever stream ended first.
C30_DuplexEndsWithBothStreams ==
  /\ [](duplex.state = "ended" => AllOutputEnded)
  /\ (AllOutputEnded ~> duplex.state = "ended")

\* the consumer's `for await` over the Duplex has finished
ConsumerDone == duplex.state = "ended" /\ duplex.read = Len(duplex.data)

\* C31 (SpecExecIo): once the container of a running exec was removed, the
\* engine closing the exec's output streams, the Duplex handed to the
\* consumer ends and the consumer's read loop finishes.
C31_RemovalEndsConsumerLoop ==
  (io.container = "removed") ~> ConsumerDone

\* the consumer of handler h's exec stream has cancelled it
Cancelled(h) == hs[h].op = "exec" /\ hs[h].pc = "stream" /\ hs[h].cl.stream = "closed"

\* C32 (Spec): once the consumer cancelled the output stream of an exec, the
\* subscription forwards no further data event, and the cancellation leaves
\* the container's process as it was.
C32_CancelStopsForwarding ==
  [][\A h \in Handlers :
       /\ Cancelled(h) /\ hs'[h].op = "exec" => hs'[h].sent = hs[h].sent
       /\ ~Cancelled(h) /\ Cancelled(h)' => ex' = ex]_vars

\* two routers made by two calls of createComputeRouter in one process
Routers == {"A", "B"}
\* the registries the handlers of router r read and write: createComputeRouter
\* hands the module's `runs` to createRunRouter, whose handlers use the
\* module's `execs`; no call creates a map
RouterRuns(r)  == runs
RouterExecs(r) == execs

\* C33 (Spec): the registries are isolated per router: a sandbox or an exec
\* registered through one router becomes resolvable through no other router,
\* and a disposal through one router removes no entry of another router.
C33_RegistriesIsolatedPerRouter ==
  [][\A r \in Routers : \A o \in Routers \ {r} :
       /\ \A id \in RunIds' :
            (~Has(RouterRuns(r), id) /\ Has(RouterRuns(r)', id)) =>
              ~(~Has(RouterRuns(o), id) /\ Has(RouterRuns(o)', id))
       /\ \A id \in ExecIds' :
            (~Has(RouterExecs(r), id) /\ Has(RouterExecs(r)', id)) =>
              ~(~Has(RouterExecs(o), id) /\ Has(RouterExecs(o)', id))
       /\ \A id \in RunIds :
            (Has(RouterRuns(r), id) /\ ~Has(RouterRuns(r)', id)) =>
              ~(Has(RouterRuns(o), id) /\ ~Has(RouterRuns(o)', id))]_vars

\* handler h emits the start event of its streaming exec in this step
EmitsStart(h) == hs[h].op = "exec" /\ ~hs[h].started /\ hs'[h].op = "exec" /\ hs'[h].started

\* C34 (Spec): when the start event of a streaming exec is emitted, the exec
\* is already an entry of the exec registry under the id the event carries;
\* no entry of the exec registry is removed or repointed; and an inspect
\* request for the id of a start event that was emitted is never answered
\* NotFound.
C34_RegisteredBeforeStartEvent ==
  [][/\ \A h \in Handlers : EmitsStart(h) =>
            Has(execs', hs'[h].val) /\ execs'[hs'[h].val] = hs'[h].e
     /\ \A id \in DOMAIN execs : Has(execs', id) /\ execs'[id] = execs[id]
     /\ \A h \in Handlers :
          (hs[h].op = "exec" /\ hs[h].started /\ last' # last
             /\ last'.op = "inspect" /\ last'.id = hs[h].val) =>
            last'.res # "NotFound"]_vars

\* while an exec streams, an inspect request for the id of its start event
\* was answered with the exec's state
C34_Witness ==
  /\ last.op = "inspect" /\ last.res = "ok"
  /\ \E h \in Handlers : hs[h].op = "exec" /\ hs[h].started /\ hs[h].val = last.id

\* the awaited calls of Run.exec: createExec (container.exec) and exec.start
BeforeStream == {"container.exec", "exec.start"}

\* C35 (Spec): a streaming exec whose command is missing, or whose exec
\* instance the container fails to create or to start, is answered with the
\* error without a start event and without a data event; the step adds no
\* entry to the exec registry and leaves the sandbox registry as it was.
C35_FailedExecLeavesNoTrace ==
  [][/\ \A h \in Handlers :
          (hs[h].op = "exec" /\ hs[h].pc \in BeforeStream /\ hs'[h].op = "idle") =>
            /\ last'.op = "exec" /\ last'.res = "Error"
            /\ ~last'.started /\ last'.sent = <<>>
            /\ execs' = execs /\ runs' = runs
     /\ (last' # last /\ last'.op = "exec" /\ last'.res = "MissingCommand") =>
            /\ ~last'.started /\ last'.sent = <<>>
            /\ hs' = hs /\ execs' = execs /\ runs' = runs]_vars

\* the engine created the exec instance and failed to start it
C35_Witness ==
  /\ last.op = "exec" /\ last.res = "Error" /\ ~last.started
  /\ nExecs = 1 /\ ex[1].state = "created"
  /\ execs = <<>> /\ Has(runs, last.id)

\* C36 (Spec): the promise of the client's exec() is pending until the
\* subscription delivers its first event; it is resolved, with the id the
\* start event carries, exactly when a start event was delivered; it is
\* rejected exactly when the subscription ended with no start event; once
\* settled it never changes; and it is never pending once the subscription
\* has ended.
C36_ExecPromiseSettlesOnce ==
  /\ [](\A h \in Handlers : hs[h].op = "exec" =>
          /\ hs[h].cl.promise = (IF hs[h].started THEN "resolved" ELSE "pending")
          /\ hs[h].started => hs[h].val # BogusId)
  /\ [](last.op = "exec" =>
          last.cl.promise = (IF last.started THEN "resolved" ELSE "rejected"))
  /\ [][\A h \in Handlers :
          (hs[h].op = "exec" /\ hs[h].cl.promise # "pending") =>
            /\ hs'[h].op = "exec" => /\ hs'[h].cl.promise = hs[h].cl.promise
                                     /\ hs'[h].val = hs[h].val
            /\ hs'[h].op = "idle" => /\ last'.cl.promise = hs[h].cl.promise
                                     /\ last'.val = hs[h].val]_vars

\* the engine failed to start the exec: the subscription errored before any
\* start event and the promise was rejected
C36_Witness ==
  /\ last.op = "exec" /\ last.res = "Error" /\ ~last.started
  /\ last.cl.promise = "rejected"
  /\ nExecs = 1

\* every SendMessage of task id t to a work queue so far: a queue keeps the
\* messages it was sent, marking the ones deleted
Sends(t) == {<<name, i>> \in QueueNames \X (1..(2 * MaxTasks)) :
               i \in DOMAIN Queue(name).msgs /\ Queue(name).msgs[i].taskId = t}

\* C37 (SpecCloud): a submitted task is placed on a work queue at most once:
\* no task id is sent to the standard or to the priority queue a second time.
C37_TaskQueuedAtMostOnce ==
  \A t \in DOMAIN taskTable : Cardinality(Sends(t)) <= 1

\* the place of a status in the order PENDING, QUEUED, RUNNING, terminal
StatusRank(status) ==
  CASE status = "PENDING" -> 0
    [] status = "QUEUED"  -> 1
    [] status = "RUNNING" -> 2
    [] OTHER              -> 3

\* C38 (SpecCloudRun): the status of a task only moves forward through
\* PENDING, QUEUED, RUNNING, SUCCESS/FAILED: no step of the queue processor,
\* the scheduler, the status handler or the container entrypoint sets it to
\* an earlier status, and a SUCCESS or FAILED task is never RUNNING, QUEUED
\* or PENDING again.
C38_StatusOnlyMovesForward ==
  [][\A t \in DOMAIN taskTable :
       StatusRank(taskTable'[t].status) >= StatusRank(taskTable[t].status)]_vars

\* C39 (SpecCloudRun): the status endpoint answers isComplete = true only
\* for a task whose status is SUCCESS or FAILED; a PENDING or QUEUED task
\* is never reported complete.
C39_CompleteOnlyWhenTerminal ==
  (poller.pc = "reply" /\ poller.code = 200 /\ poller.isComplete) =>
    poller.status \in Terminal

====
